---- MODULE Spec2Model ----
(***************************************************************************)
(* TeamHub API servers (komi-kou/teamtask3).                               *)
(*                                                                         *)
(* Two Express servers are modelled, selected by the variable `server`:    *)
(*   "team"   - the in-memory team server (users/tasks/projects/leads      *)
(*              arrays held in process memory);                            *)
(*   "prisma" - the Prisma/PostgreSQL backed server.                       *)
(* Both use the same authenticateToken middleware and the same jwt/bcrypt  *)
(* calls.  A run of the model is a run of one of the two servers.          *)
(* The browser side (the axios client `api`, the App and Auth components)  *)
(* and the shutdown of the Prisma server process are modelled as well.     *)
(*                                                                         *)
(* JavaScript strings that the code takes apart (emails: toLowerCase,      *)
(* split('@')) are sequences of one-character strings; all other strings   *)
(* are TLA+ strings.  An absent (undefined) field of a JSON body is a key  *)
(* that is not in the DOMAIN of the body.                                  *)
(***************************************************************************)
EXTENDS Integers, Sequences, FiniteSets, TLC

VARIABLES
  server,    \* which server program is running
  now,       \* the clock: the reading Date.now() / new Date() returns
  users,     \* team: `let users: User[]`; prisma: table User
  teams,     \* prisma: table Team (set of names); unused by the team server
  tasks,     \* team: `let tasks: Task[]`; prisma: table Task
  projects,  \* team: `let projects: Project[]`; prisma: table Project
  leads,     \* team: `let leads: Lead[]`; prisma: table Lead
  dbSeq,     \* prisma: number of ids the database has generated
  pending,   \* register requests suspended at an await (bag, as a sequence)
  issued,    \* history: the {user, token} pairs of register/login responses
  origin,    \* history: per store, the team of the identity that created
             \* the record at the same index
  req,       \* history: the last request handled
  resp,      \* the response to it
  localStorage,  \* browser: window.localStorage of the client
  location,      \* browser: the path of window.location
  auth,          \* browser: the value of the AuthContext ({user, isLoading})
  form,          \* browser: the state of the Auth component (the login form)
  proc           \* the server process: HTTP server, database connection, exit

\* The state of the browser the client runs in
browser == <<localStorage, location, auth, form>>

vars == <<server, now, users, teams, tasks, projects, leads, dbSeq,
          pending, issued, origin, req, resp, browser, proc>>

-----------------------------------------------------------------------------
(* Bounds of the model *)

MaxRecords == 2   \* records held by the three stores together (team);
                  \* rows ever created in them (prisma)
MaxKinds == 1     \* stores that hold records at the same time
MaxTick == 1      \* clock readings after the first one (resource runs)
MaxUsers == 2     \* register requests that got past the checks (auth runs)
MaxTokens == 3    \* tokens handed out (auth runs)
MaxSkew == 1      \* clock readings after the start, and after the first expiry
MaxInFlight == 2  \* update and delete requests sent in one run (concurrent runs)
MaxSignals == 2   \* SIGTERM / SIGINT signals delivered to the process

(* Program constants *)

ExpiresIn == 30       \* jwt.sign(..., { expiresIn: '30d' }), in clock units
DefaultProbability == 50  \* team server: req.body.probability || 50

Secret == "NEXTAUTH_SECRET"          \* process.env.NEXTAUTH_SECRET || 'fallback-secret'

\* Texts that the code may replace by a fallback, or take apart, are sequences
\* of characters (one-character strings, or one word)
DefaultTeam == <<"default-team">>    \* 'デフォルトチーム'
Unknown == <<"Unknown">>             \* 'Unknown'
Undefined == <<"undefined">>         \* a field read from an object that lacks it
Sales == <<"S", "a", "l", "e", "s">>
Ops == <<"O", "p", "s">>

(* Error messages (the source's Japanese texts, one tag each) *)
ErrTokenRequired == "token-required"       \* 'アクセストークンが必要です'
ErrInvalidToken == "invalid-token"         \* '無効なトークンです'
ErrRequired == "email-password-required"   \* 'メールアドレスとパスワードは必須です'
ErrDuplicate == "already-registered"       \* 'このメールアドレスは既に登録されています'
ErrCredentials == "bad-credentials"        \* 'メールアドレスまたはパスワードが正しくありません'
ErrRegister == "register-failed"           \* '登録処理中にエラーが発生しました'
MsgRegistered == "registered"              \* '登録が完了しました'
MsgLoggedIn == "logged-in"                 \* 'ログインに成功しました'
ErrTaskNotFound == "task-not-found"        \* 'タスクが見つかりません'
MsgTaskDeleted == "task-deleted"           \* 'タスクが削除されました'
ErrUpdate == "update-failed"               \* '...の更新に失敗しました'
ErrDelete == "delete-failed"               \* '...の削除に失敗しました'
ErrCreate == "create-failed"               \* '...の作成に失敗しました'
ErrNoRoute == "cannot-method-path"         \* Express: no route matches

Kinds == {"tasks", "projects", "leads"}

-----------------------------------------------------------------------------
(* JavaScript helpers *)

Has(b, k) == k \in DOMAIN b

\* b.k
Get(b, k) == IF Has(b, k) THEN b[k] ELSE Undefined

\* b.k || d, for a string-valued k
OrStr(b, k, d) == IF Has(b, k) /\ b[k] # "" THEN b[k] ELSE d

\* b.k || d, for a k that holds a sequence of characters
OrText(b, k, d) == IF Has(b, k) /\ b[k] # <<>> THEN b[k] ELSE d

\* b.k || d, for a number-valued k
OrNum(b, k, d) == IF Has(b, k) /\ b[k] # 0 THEN b[k] ELSE d

\* { ...a, ...b }
Spread(a, b) == [k \in (DOMAIN a) \cup (DOMAIN b) |-> IF k \in DOMAIN b THEN b[k] ELSE a[k]]

\* Date.now().toString() / a numeric string of a route parameter
ToStr(n) == <<"str", n>>

\* new Date().toISOString()
ToISOString(n) == <<"iso", n>>

\* arr.splice(i, 1)
Splice(s, i) == [j \in 1..(Len(s) - 1) |-> IF j < i THEN s[j] ELSE s[j + 1]]

\* arr.filter(p) for the predicate "index in keep"
RECURSIVE FilterSeq(_, _)
FilterSeq(s, keep) ==
  IF s = <<>> THEN <<>>
  ELSE LET rest == FilterSeq(Tail(s), {i - 1 : i \in keep \ {1}})
       IN IF 1 \in keep THEN <<Head(s)>> \o rest ELSE rest

\* String.prototype.toLowerCase on the letters the model uses
LowerChar(c) == CASE c = "A" -> "a" [] c = "B" -> "b" [] OTHER -> c
ToLowerCase(s) == [i \in 1..Len(s) |-> LowerChar(s[i])]

\* s.split('@')[0]
RECURSIVE SplitAt0(_)
SplitAt0(s) ==
  IF s = <<>> \/ Head(s) = "@" THEN <<>> ELSE <<Head(s)>> \o SplitAt0(Tail(s))

-----------------------------------------------------------------------------
(* jsonwebtoken and bcryptjs, as the code calls them *)

\* The signature is an ideal MAC: it matches only the key and payload signed.
Sign(key, payload) == <<key, payload>>

\* jwt.sign(claims, secret, { expiresIn: '30d' }) at clock reading t
JwtSign(claims, key, t) ==
  LET payload == claims @@ [iat |-> t, exp |-> t + ExpiresIn]
  IN [payload |-> payload, sig |-> Sign(key, payload)]

\* Faulty variant: a verification that does not look at exp
JwtVerifyIgnoringExp(token, key, t) ==
  IF token.sig = Sign(key, token.payload)
  THEN [err |-> FALSE, user |-> token.payload]
  ELSE [err |-> TRUE]

\* jwt.verify(token, secret, cb) at clock reading t: err, or the decoded payload
JwtVerify(token, key, t) ==
  IF token.sig = Sign(key, token.payload) /\ t < token.payload.exp
  THEN [err |-> FALSE, user |-> token.payload]
  ELSE [err |-> TRUE]

\* bcrypt.hash(password, 12) and bcrypt.compare(password, hash)
BcryptHash(password) == <<"bcrypt", password>>
BcryptCompare(password, hash) == hash = BcryptHash(password)

\* The claims register and login sign
Claims(user) ==
  [id |-> user.id, email |-> user.email, name |-> user.name,
   role |-> user.role, teamName |-> user.teamName]

-----------------------------------------------------------------------------
(* authenticateToken *)

\* authHeader && authHeader.split(' ')[1]; a header is its sequence of words,
\* so the token is undefined (falsy) when there are fewer than two
HasToken(h) == Len(h) >= 2
HeaderToken(h) == h[2]

\* Faulty variant: the callback of jwt.verify calls next() without looking at err
AuthenticateTokenIgnoringErr(h, t) ==
  IF ~HasToken(h)
  THEN [next |-> FALSE, status |-> 401, body |-> [error |-> ErrTokenRequired]]
  ELSE [next |-> TRUE, user |-> HeaderToken(h).payload]

\* [next |-> TRUE, user] when next() is called with req.user set; otherwise
\* the response the middleware sends itself
AuthenticateToken(h, t) ==
  IF ~HasToken(h)
  THEN [next |-> FALSE, status |-> 401, body |-> [error |-> ErrTokenRequired]]
  ELSE LET v == JwtVerify(HeaderToken(h), Secret, t) IN
       IF v.err
       THEN [next |-> FALSE, status |-> 403, body |-> [error |-> ErrInvalidToken]]
       ELSE [next |-> TRUE, user |-> v.user]

\* req.user?.teamName
TeamOf(user) == Get(user, "teamName")

-----------------------------------------------------------------------------
(* Records *)

\* register: the User pushed (team) / created (prisma); `id` is
\* Date.now().toString() on the team server and database-generated on prisma
NewUser(body, id, t) ==
  [id |-> id,
   email |-> ToLowerCase(body.email),
   password |-> BcryptHash(body.password),
   name |-> OrText(body, "name", SplitAt0(body.email)),
   teamName |-> OrText(body, "teamName", DefaultTeam),
   role |-> "user",
   createdAt |-> ToISOString(t)]

\* req.user?.name || 'Unknown'
CreatedBy(user) == OrText(user, "name", Unknown)

\* req.body.assignee || req.user?.name || 'Unknown'
Assignee(body, user) == OrText(body, "assignee", CreatedBy(user))

\* req.user?.teamName || 'Unknown'
StampTeam(user) == OrText(user, "teamName", Unknown)

\* The object literal of POST /api/tasks, /api/projects, /api/leads on the
\* team server, given what it puts in teamName and createdBy
TeamRecord(kind, body, user, t, teamName, createdBy) ==
  CASE kind = "tasks" ->
         [id |-> ToStr(t),
          title |-> Get(body, "title"),
          description |-> OrStr(body, "description", ""),
          status |-> OrStr(body, "status", "pending"),
          priority |-> OrStr(body, "priority", "medium"),
          assignee |-> Assignee(body, user),
          dueDate |-> IF Has(body, "dueDate") THEN body.dueDate ELSE ToISOString(t),
          teamName |-> teamName,
          createdBy |-> createdBy,
          createdAt |-> ToISOString(t),
          updatedAt |-> ToISOString(t)]
    [] kind = "projects" ->
         [id |-> ToStr(t),
          name |-> Get(body, "name"),
          description |-> OrStr(body, "description", ""),
          client |-> OrStr(body, "client", ""),
          status |-> OrStr(body, "status", "planning"),
          priority |-> OrStr(body, "priority", "medium"),
          progress |-> OrNum(body, "progress", 0),
          teamName |-> teamName,
          createdBy |-> createdBy,
          createdAt |-> ToISOString(t),
          updatedAt |-> ToISOString(t)]
    [] kind = "leads" ->
         [id |-> ToStr(t),
          company |-> Get(body, "company"),
          contact |-> Get(body, "contact"),
          contactEmail |-> OrStr(body, "contactEmail", ""),
          status |-> OrStr(body, "status", "lead"),
          value |-> OrNum(body, "value", 0),
          probability |-> OrNum(body, "probability", DefaultProbability),
          teamName |-> teamName,
          createdBy |-> createdBy,
          createdAt |-> ToISOString(t),
          updatedAt |-> ToISOString(t)]

\* Faulty variant: teamName and createdBy are taken from the body when it has them
TeamNewRecordTrustingBody(kind, body, user, t) ==
  TeamRecord(kind, body, user, t, OrText(body, "teamName", StampTeam(user)),
             OrText(body, "createdBy", CreatedBy(user)))

\* ... which are req.user?.teamName || 'Unknown' and req.user?.name || 'Unknown'
TeamNewRecord(kind, body, user, t) ==
  TeamRecord(kind, body, user, t, StampTeam(user), CreatedBy(user))

\* The store of a kind
Store(kind) ==
  CASE kind = "tasks" -> tasks [] kind = "projects" -> projects [] kind = "leads" -> leads

\* tasks.filter(task => task.teamName === req.user?.teamName): the indices kept
TeamFilter(store, user) == {i \in 1..Len(store) : store[i].teamName = TeamOf(user)}

\* tasks.findIndex(task => task.id === req.params.id &&
\*                         task.teamName === req.user?.teamName); 0 for -1
FindIndex(store, id, user) ==
  LET hits == {i \in 1..Len(store) :
                 store[i].id = id /\ store[i].teamName = TeamOf(user)}
  IN IF hits = {} THEN 0 ELSE CHOOSE i \in hits : \A j \in hits : i <= j

\* Faulty variant: updatedAt is set before the body is spread over the task
MergeTaskBodyLast(task, body, t) ==
  Spread(Spread(task, [updatedAt |-> ToISOString(t)]), body)

\* { ...tasks[taskIndex], ...req.body, updatedAt: new Date().toISOString() }
MergeTask(task, body, t) == Spread(Spread(task, body), [updatedAt |-> ToISOString(t)])

-----------------------------------------------------------------------------
(* Requests and results *)

NoId == <<>>
NoBody == <<>>

Request(op, h, id, body) == [op |-> op, headers |-> h, id |-> id, body |-> body]
Response(status, body) == [status |-> status, body |-> body]

\* What a resource handler does: its response, and the store of its kind
\* (with the history of who created each record) as it leaves it
Result(status, body, store, org) ==
  [status |-> status, body |-> body, store |-> store, origin |-> org]

\* A handler (or the middleware) that answers and leaves the store alone
Only(kind, status, body) == Result(status, body, Store(kind), origin[kind])

\* No request is being answered
Idle == Request("idle", <<>>, NoId, NoBody)
NoResponse == Response(0, NoBody)

Records == Len(tasks) + Len(projects) + Len(leads)
KindsInUse(kind) == {k \in Kinds : Store(k) # <<>>} \cup {kind}

-----------------------------------------------------------------------------
(* The browser of the API client *)

\* window.localStorage is a function from the keys that are set to their
\* items; a key that was never set or was removed is not in its DOMAIN
NoItems == [k \in {} |-> Undefined]

\* localStorage.setItem(k, v) and localStorage.removeItem(k)
SetItem(store, k, v) == [x \in DOMAIN store \cup {k} |-> IF x = k THEN v ELSE store[x]]
RemoveItem(store, k) == [x \in DOMAIN store \ {k} |-> store[x]]

\* The user of the AuthContext is null (no element) or one user object
NoUser == <<>>

\* The page has just been loaded: nothing is stored and the AuthContext has
\* not yet settled
Loading == [user |-> NoUser, isLoading |-> TRUE]
Home == "/"

\* The useState initial values of the Auth component; `call` is the login or
\* register call handleSubmit is awaiting ("none": no submission in flight)
FormInit ==
  [isLogin |-> TRUE, isLoading |-> FALSE, error |-> "", call |-> "none"]

\* The server process after app.listen: the HTTP server accepts connections,
\* the Prisma client is connected, no signal has arrived.  `closeCbs` counts
\* the callbacks of server.close that wait for 'close', `awaiting` those that
\* await prisma.$disconnect()
Started ==
  [http |-> "listening", db |-> "connected", signals |-> 0, closeCbs |-> 0,
   awaiting |-> 0, exit |-> "running"]

BrowserOpened ==
  /\ localStorage = NoItems
  /\ location = Home
  /\ auth = Loading
  /\ form = FormInit

-----------------------------------------------------------------------------
(* The in-memory team server: resources *)

\* GET /api/tasks, /api/projects, /api/leads
TeamList(kind, h) ==
  LET a == AuthenticateToken(h, now) IN
  IF ~a.next THEN Only(kind, a.status, a.body)
  ELSE Only(kind, 200, FilterSeq(Store(kind), TeamFilter(Store(kind), a.user)))

\* POST /api/tasks, /api/projects, /api/leads
TeamCreate(kind, h, body) ==
  LET a == AuthenticateToken(h, now) IN
  IF ~a.next THEN Only(kind, a.status, a.body)
  ELSE LET rec == TeamNewRecord(kind, body, a.user, now)
       IN Result(201, rec, Append(Store(kind), rec),
                 Append(origin[kind], TeamOf(a.user)))

\* PUT /api/tasks/:id
TeamPutTask(h, id, body) ==
  LET a == AuthenticateToken(h, now) IN
  IF ~a.next THEN Only("tasks", a.status, a.body)
  ELSE LET taskIndex == FindIndex(tasks, id, a.user) IN
       IF taskIndex = 0 THEN Only("tasks", 404, [error |-> ErrTaskNotFound])
       ELSE LET task == MergeTask(tasks[taskIndex], body, now)
            IN Result(200, task, [tasks EXCEPT ![taskIndex] = task], origin.tasks)

\* DELETE /api/tasks/:id
TeamDeleteTask(h, id) ==
  LET a == AuthenticateToken(h, now) IN
  IF ~a.next THEN Only("tasks", a.status, a.body)
  ELSE LET taskIndex == FindIndex(tasks, id, a.user) IN
       IF taskIndex = 0 THEN Only("tasks", 404, [error |-> ErrTaskNotFound])
       ELSE Result(200, [message |-> MsgTaskDeleted],
                   Splice(tasks, taskIndex), Splice(origin.tasks, taskIndex))

\* PUT and DELETE /api/projects/:id, /api/leads/:id: the team server registers
\* no such route, and Express answers 404 itself
NoRoute(kind) == Only(kind, 404, [error |-> ErrNoRoute])

-----------------------------------------------------------------------------
(* The Prisma-backed server: resources *)

\* An id the database generates for the n-th row it creates
DbId(n) == <<"cuid", n>>

Null == <<"null">>

\* The row of table User a userId refers to: its index in users, 0 for none
UserIndex(userId) ==
  LET hits == {i \in 1..Len(users) : users[i].id = userId}
  IN IF hits = {} THEN 0 ELSE CHOOSE i \in hits : TRUE

\* The team a row belongs to: the teamName of its `user` relation
RowTeam(row) == users[UserIndex(row.userId)].teamName

\* prisma.<kind>.create({ data: {...} }) of POST /api/<kind>
PrismaNewRecord(kind, body, user, id, t) ==
  CASE kind = "tasks" ->
         [id |-> id,
          title |-> Get(body, "title"),
          description |-> OrStr(body, "description", ""),
          status |-> OrStr(body, "status", "pending"),
          priority |-> OrStr(body, "priority", "medium"),
          assignee |-> Assignee(body, user),
          dueDate |-> IF Has(body, "dueDate") THEN body.dueDate ELSE Null,
          userId |-> user.id,
          createdAt |-> ToISOString(t),
          updatedAt |-> ToISOString(t)]
    [] kind = "projects" ->
         [id |-> id,
          name |-> Get(body, "name"),
          description |-> OrStr(body, "description", ""),
          client |-> OrStr(body, "client", ""),
          status |-> OrStr(body, "status", "planning"),
          priority |-> OrStr(body, "priority", "medium"),
          progress |-> OrNum(body, "progress", 0),
          userId |-> user.id,
          createdAt |-> ToISOString(t),
          updatedAt |-> ToISOString(t)]
    [] kind = "leads" ->
         [id |-> id,
          company |-> Get(body, "company"),
          contact |-> Get(body, "contact"),
          contactEmail |-> OrStr(body, "contactEmail", ""),
          status |-> OrStr(body, "status", "lead"),
          value |-> OrNum(body, "value", 0),
          probability |-> OrNum(body, "probability", 0),
          userId |-> user.id,
          createdAt |-> ToISOString(t),
          updatedAt |-> ToISOString(t)]

\* orderBy: { createdAt: 'desc' }: insertion of a row into a sorted result
RECURSIVE InsertDesc(_, _)
InsertDesc(sorted, row) ==
  IF sorted = <<>> THEN <<row>>
  ELSE IF Head(sorted).createdAt[2] >= row.createdAt[2]
       THEN <<Head(sorted)>> \o InsertDesc(Tail(sorted), row)
       ELSE <<row>> \o sorted

RECURSIVE SortDesc(_)
SortDesc(rows) ==
  IF rows = <<>> THEN <<>> ELSE InsertDesc(SortDesc(Tail(rows)), Head(rows))

\* where: { user: { teamName: req.user.teamName } }: the indices selected
PrismaWhereTeam(store, teamName) ==
  {i \in 1..Len(store) :
     UserIndex(store[i].userId) # 0 /\ RowTeam(store[i]) = teamName}

\* where: { id: req.params.id }: the index of the row, 0 for none
PrismaWhereId(store, id) ==
  LET hits == {i \in 1..Len(store) : store[i].id = id}
  IN IF hits = {} THEN 0 ELSE CHOOSE i \in hits : TRUE

\* Whether `data: req.body` is an update the table accepts: only columns of
\* the row, a userId that refers to a user, an id no other row has
PrismaDataOk(store, i, body) ==
  /\ DOMAIN body \subseteq DOMAIN store[i]
  /\ Has(body, "userId") => UserIndex(body.userId) # 0
  /\ Has(body, "id") => \A j \in 1..Len(store) : j # i => store[j].id # body.id

\* GET /api/tasks, /api/projects, /api/leads
PrismaList(kind, h) ==
  LET a == AuthenticateToken(h, now) IN
  IF ~a.next THEN Only(kind, a.status, a.body)
  ELSE IF TeamOf(a.user) \in {Undefined, <<>>} THEN Only(kind, 200, <<>>)
  ELSE Only(kind, 200,
            SortDesc(FilterSeq(Store(kind), PrismaWhereTeam(Store(kind), TeamOf(a.user)))))

\* POST /api/tasks, /api/projects, /api/leads
PrismaCreate(kind, h, body) ==
  LET a == AuthenticateToken(h, now) IN
  IF ~a.next THEN Only(kind, a.status, a.body)
  ELSE IF UserIndex(a.user.id) = 0 THEN Only(kind, 500, [error |-> ErrCreate])
  ELSE LET rec == PrismaNewRecord(kind, body, a.user, DbId(dbSeq + 1), now)
       IN Result(201, rec, Append(Store(kind), rec),
                 Append(origin[kind], TeamOf(a.user)))

\* PUT /api/tasks/:id, /api/projects/:id, /api/leads/:id
PrismaPut(kind, h, id, body) ==
  LET a == AuthenticateToken(h, now)
      i == PrismaWhereId(Store(kind), id)
  IN IF ~a.next THEN Only(kind, a.status, a.body)
     ELSE IF i = 0 \/ ~PrismaDataOk(Store(kind), i, body)
     THEN Only(kind, 500, [error |-> ErrUpdate])
     ELSE LET rec == MergeTask(Store(kind)[i], body, now)
          IN Result(200, rec, [Store(kind) EXCEPT ![i] = rec], origin[kind])

\* DELETE /api/tasks/:id, /api/projects/:id, /api/leads/:id
PrismaDelete(kind, h, id) ==
  LET a == AuthenticateToken(h, now)
      i == PrismaWhereId(Store(kind), id)
  IN IF ~a.next THEN Only(kind, a.status, a.body)
     ELSE IF i = 0 THEN Only(kind, 500, [error |-> ErrDelete])
     ELSE Result(204, NoBody, Splice(Store(kind), i), Splice(origin[kind], i))

-----------------------------------------------------------------------------
(* The routes of the server that is running *)

List(kind, h) == IF server = "team" THEN TeamList(kind, h) ELSE PrismaList(kind, h)

Create(kind, h, body) ==
  IF server = "team" THEN TeamCreate(kind, h, body) ELSE PrismaCreate(kind, h, body)

Put(kind, h, id, body) ==
  IF server = "prisma" THEN PrismaPut(kind, h, id, body)
  ELSE IF kind = "tasks" THEN TeamPutTask(h, id, body)
  ELSE NoRoute(kind)

Delete(kind, h, id) ==
  IF server = "prisma" THEN PrismaDelete(kind, h, id)
  ELSE IF kind = "tasks" THEN TeamDeleteTask(h, id)
  ELSE NoRoute(kind)

\* GET /api/auth/me
Me(h) ==
  LET a == AuthenticateToken(h, now) IN
  IF ~a.next THEN Response(a.status, a.body) ELSE Response(200, [user |-> a.user])

\* Faulty variant: the users are returned as they are stored
MemberViewWhole(user) == user

\* GET /api/team/members: the fields of a user that are returned (the object
\* of .map on the team server, the `select` of findMany on prisma)
MemberView(user) ==
  [k \in {"id", "email", "name", "role", "teamName", "createdAt"} |-> user[k]]

\* The users of a team, in the order they are stored, as they are returned
MembersOf(team) ==
  LET idx == {i \in 1..Len(users) : users[i].teamName = team}
      Take[n \in 0..Len(users)] ==
        IF n = 0 THEN <<>>
        ELSE IF n \in idx THEN Append(Take[n - 1], MemberView(users[n]))
        ELSE Take[n - 1]
  IN Take[Len(users)]

\* team server: users.filter(user => user.teamName === req.user?.teamName)
TeamMembers(h) ==
  LET a == AuthenticateToken(h, now) IN
  IF ~a.next THEN Response(a.status, a.body)
  ELSE IF ~Has(a.user, "teamName") THEN Response(200, <<>>)
  ELSE Response(200, MembersOf(a.user.teamName))

\* prisma server: [] without a teamName, else findMany({ where: { teamName } })
PrismaMembers(h) ==
  LET a == AuthenticateToken(h, now) IN
  IF ~a.next THEN Response(a.status, a.body)
  ELSE IF ~Has(a.user, "teamName") \/ a.user.teamName = <<>> THEN Response(200, <<>>)
  ELSE Response(200, MembersOf(a.user.teamName))

Members(h) == IF server = "team" THEN TeamMembers(h) ELSE PrismaMembers(h)

-----------------------------------------------------------------------------
(* Registration and login *)

\* Faulty variant: only the email is looked at
MissingEmail(body) == ~Has(body, "email") \/ body.email = <<>>

\* !email || !password
Missing(body) ==
  \/ ~Has(body, "email") \/ body.email = <<>>
  \/ ~Has(body, "password") \/ body.password = ""

\* Faulty variant: the lookup compares the stored email with the email as it was sent
FindByEmailAsSent(email) ==
  LET hits == {i \in 1..Len(users) : users[i].email = email}
  IN IF hits = {} THEN 0 ELSE CHOOSE i \in hits : \A j \in hits : i <= j

\* users.find(u => u.email === email.toLowerCase()) /
\* prisma.user.findUnique({ where: { email: normalizedEmail } }):
\* the index of the first user with that email, 0 for none
FindByEmail(email) ==
  LET hits == {i \in 1..Len(users) : users[i].email = ToLowerCase(email)}
  IN IF hits = {} THEN 0 ELSE CHOOSE i \in hits : \A j \in hits : i <= j

\* register up to its first await of the hash: the response it sends, or
\* NoResponse when it goes on to bcrypt.hash
RegisterChecks(body) ==
  IF Missing(body) THEN Response(400, [error |-> ErrRequired])
  ELSE IF FindByEmail(body.email) # 0 THEN Response(400, [error |-> ErrDuplicate])
  ELSE NoResponse

\* The 201 response of register for the user it stored
Registered201(user, t) ==
  Response(201, [message |-> MsgRegistered, user |-> Claims(user),
                 token |-> JwtSign(Claims(user), Secret, t)])

\* Faulty variant: login answers 404 when no user has the email
LoginRevealing(body) ==
  IF Missing(body) THEN Response(400, [error |-> ErrRequired])
  ELSE LET i == FindByEmail(body.email) IN
       IF i = 0 THEN Response(404, [error |-> ErrCredentials])
       ELSE IF ~BcryptCompare(body.password, users[i].password)
       THEN Response(401, [error |-> ErrCredentials])
       ELSE Response(200, [message |-> MsgLoggedIn, user |-> Claims(users[i]),
                           token |-> JwtSign(Claims(users[i]), Secret, now)])

\* POST /api/auth/login.  The user is looked up before the await of
\* bcrypt.compare and no request changes or removes a stored user, so the
\* response is a function of the store at the lookup.
Login(body) ==
  IF Missing(body) THEN Response(400, [error |-> ErrRequired])
  ELSE LET i == FindByEmail(body.email) IN
       IF i = 0 THEN Response(401, [error |-> ErrCredentials])
       ELSE IF ~BcryptCompare(body.password, users[i].password)
       THEN Response(401, [error |-> ErrCredentials])
       ELSE Response(200, [message |-> MsgLoggedIn, user |-> Claims(users[i]),
                           token |-> JwtSign(Claims(users[i]), Secret, now)])

-----------------------------------------------------------------------------
(* Steps *)

\* The server answers a resource request `r` with the result `res`
Serve(r, kind, res) ==
  /\ req = Idle
  /\ req' = r
  /\ resp' = Response(res.status, res.body)
  /\ tasks' = IF kind = "tasks" THEN res.store ELSE tasks
  /\ projects' = IF kind = "projects" THEN res.store ELSE projects
  /\ leads' = IF kind = "leads" THEN res.store ELSE leads
  /\ origin' = [origin EXCEPT ![kind] = res.origin]
  /\ dbSeq' = IF server = "prisma" /\ Len(res.store) > Len(Store(kind))
              THEN dbSeq + 1 ELSE dbSeq
  /\ UNCHANGED <<server, now, users, teams, pending, issued, browser, proc>>

OpList(kind) == "GET /api/" \o kind
OpCreate(kind) == "POST /api/" \o kind
OpPut(kind) == "PUT /api/" \o kind \o "/:id"
OpDelete(kind) == "DELETE /api/" \o kind \o "/:id"
OpMe == "GET /api/auth/me"
OpMembers == "GET /api/team/members"

ListRecords(kind, h) == Serve(Request(OpList(kind), h, NoId, NoBody), kind, List(kind, h))

CreateRecord(kind, h, body) ==
  /\ Cardinality(KindsInUse(kind)) <= MaxKinds
  /\ IF server = "team" THEN Records < MaxRecords
     ELSE dbSeq < Len(users) + MaxRecords
  /\ Serve(Request(OpCreate(kind), h, NoId, body), kind, Create(kind, h, body))

PutRecord(kind, h, id, body) ==
  Serve(Request(OpPut(kind), h, id, body), kind, Put(kind, h, id, body))

DeleteRecord(kind, h, id) ==
  Serve(Request(OpDelete(kind), h, id, NoBody), kind, Delete(kind, h, id))

GetMe(h) ==
  /\ req = Idle
  /\ req' = Request(OpMe, h, NoId, NoBody)
  /\ resp' = Me(h)
  /\ UNCHANGED <<server, now, users, teams, tasks, projects, leads, dbSeq,
                 pending, issued, origin, browser, proc>>

GetMembers(h) ==
  /\ req = Idle
  /\ req' = Request(OpMembers, h, NoId, NoBody)
  /\ resp' = Members(h)
  /\ UNCHANGED <<server, now, users, teams, tasks, projects, leads, dbSeq,
                 pending, issued, origin, browser, proc>>

\* The response has left the server; the next request can be taken up
Respond ==
  /\ req # Idle
  /\ req' = Idle
  /\ resp' = NoResponse
  /\ UNCHANGED <<server, now, users, teams, tasks, projects, leads, dbSeq,
                 pending, issued, origin, browser, proc>>

\* The passage of time between two requests
Tick(t) ==
  /\ req = Idle
  /\ t > now
  /\ now' = t
  /\ UNCHANGED <<server, users, teams, tasks, projects, leads, dbSeq,
                 pending, issued, origin, req, resp, browser, proc>>

-----------------------------------------------------------------------------
(* Resource runs: the server after a run of registrations *)

\* The bodies of the register requests of a run, in order of arrival
RegistrationRuns ==
  { << [email |-> <<"A", "@", "x">>, password |-> "pw", teamName |-> Sales],
       [email |-> <<"b", "@", "x">>, password |-> "pw",
        name |-> <<"B", "o", "b">>, teamName |-> Ops] >>,
    << [email |-> <<"@", "x">>, password |-> "pw", teamName |-> Sales] >> }

\* The user the i-th registration of a run stored, at clock reading i
Registered(srv, run, i) ==
  NewUser(run[i], IF srv = "team" THEN ToStr(i) ELSE DbId(i), i)

\* The token the response to a registration or login carries
TokenOf(user, t) == JwtSign(Claims(user), Secret, t)

\* A token of the last user whose payload was rewritten to another team
Tampered ==
  LET tok == TokenOf(users[Len(users)], Len(users))
  IN [tok EXCEPT !.payload =
        [tok.payload EXCEPT !.teamName = IF @ = Sales THEN Ops ELSE Sales]]

\* Authorization headers a client may send
Headers ==
  {<<>>, <<"Bearer">>} \cup
  {<<"Bearer", tok>> : tok \in {g.token : g \in issued} \cup {Tampered}}

CreateBodies(kind) ==
  CASE kind = "tasks" ->
         {[title |-> <<"t">>],
          [title |-> <<"t">>, teamName |-> Ops, createdBy |-> <<"E", "v", "e">>]}
    [] kind = "projects" ->
         {[name |-> <<"p">>],
          [name |-> <<"p">>, teamName |-> Ops, createdBy |-> <<"E", "v", "e">>]}
    [] kind = "leads" ->
         {[company |-> <<"c">>, contact |-> <<"k">>],
          [company |-> <<"c">>, contact |-> <<"k">>, teamName |-> Ops,
           createdBy |-> <<"E", "v", "e">>]}

UpdateBodies ==
  {[status |-> "done"], [teamName |-> Ops]} \cup
  (IF server = "prisma" THEN {[userId |-> users[Len(users)].id]} ELSE {})

\* Route parameters: the ids in the store and one that is in no store
NoSuchId == ToStr(0)
ReqIds(kind) == {Store(kind)[i].id : i \in 1..Len(Store(kind))} \cup {NoSuchId}

InitRes ==
  /\ server \in {"team", "prisma"}
  /\ \E run \in RegistrationRuns :
       /\ users = [i \in 1..Len(run) |-> Registered(server, run, i)]
       /\ now = Len(run)
  /\ teams = IF server = "team" THEN {}
             ELSE {users[i].teamName : i \in 1..Len(users)}
  /\ tasks = <<>>
  /\ projects = <<>>
  /\ leads = <<>>
  /\ dbSeq = IF server = "team" THEN 0 ELSE Len(users)
  /\ pending = <<>>
  /\ issued = {[user |-> Claims(users[i]), token |-> TokenOf(users[i], i)] :
                 i \in 1..Len(users)}
  /\ origin = [k \in Kinds |-> <<>>]
  /\ req = Idle
  /\ resp = NoResponse
  /\ BrowserOpened
  /\ proc = Started

\* A request is taken up when the one before it has been answered
NextRes ==
  \/ Respond
  \/ req = Idle /\ \E t \in (now + 1) .. (Len(users) + MaxTick) : Tick(t)
  \/ req = Idle /\ \E h \in Headers : GetMe(h)
  \/ req = Idle /\ \E k \in Kinds, h \in Headers : ListRecords(k, h)
  \/ req = Idle /\ \E k \in Kinds, h \in Headers : \E b \in CreateBodies(k) :
                     CreateRecord(k, h, b)
  \/ req = Idle /\ \E k \in Kinds, h \in Headers :
                     \E id \in ReqIds(k), b \in UpdateBodies : PutRecord(k, h, id, b)
  \/ req = Idle /\ \E k \in Kinds, h \in Headers : \E id \in ReqIds(k) :
                     DeleteRecord(k, h, id)

SpecRes == InitRes /\ [][NextRes]_vars

-----------------------------------------------------------------------------
(* Properties of the resource routes (checked under SpecRes) *)

\* The identity context of a request whose token was verified
Verified(h) == AuthenticateToken(h, now).next
Identity(h) == AuthenticateToken(h, now).user

\* The team a stored record belongs to
OwningTeam(kind, i) ==
  IF server = "team" THEN Store(kind)[i].teamName ELSE RowTeam(Store(kind)[i])

\* The records of a store that appear in a list result
Appears(kind, i, list) == \E j \in 1..Len(list) : list[j] = Store(kind)[i]

\* C1: a task, project or lead created by an identity of one team never
\* appears in the result of a list request of an identity of another team.
C1_ListIsolation ==
  \A k \in Kinds, h \in Headers :
    Verified(h) =>
      \A i \in 1..Len(Store(k)) :
        Appears(k, i, List(k, h).body) => origin[k][i] = TeamOf(Identity(h))

\* C2: on the team server, PUT and DELETE /api/tasks/:id by an identity of
\* one team against the id of a task of another team answer 404, exactly as
\* for an id that is in no store, and leave the tasks as they are.
C2_CrossTeamNotFound ==
  server = "team" =>
    \A h \in Headers, id \in ReqIds("tasks"), b \in UpdateBodies :
      (/\ Verified(h)
       /\ \E i \in 1..Len(tasks) :
            tasks[i].id = id /\ tasks[i].teamName # TeamOf(Identity(h)))
      => /\ TeamPutTask(h, id, b).status = 404
         /\ TeamPutTask(h, id, b) = TeamPutTask(h, NoSuchId, b)
         /\ TeamPutTask(h, id, b).store = tasks
         /\ TeamDeleteTask(h, id).status = 404
         /\ TeamDeleteTask(h, id) = TeamDeleteTask(h, NoSuchId)
         /\ TeamDeleteTask(h, id).store = tasks

\* C3: on the Prisma server a PUT or DELETE by id is applied to a record only
\* if the record's team is the requester's; aimed at a record of another team
\* or at an id that does not exist, it answers 404 and changes no record.
C3_PrismaWriteScoped ==
  server = "prisma" =>
    \A k \in Kinds, h \in Headers :
      \A id \in ReqIds(k), b \in UpdateBodies :
        LET i == PrismaWhereId(Store(k), id)
            put == PrismaPut(k, h, id, b)
            del == PrismaDelete(k, h, id)
        IN (Verified(h) /\ (i = 0 \/ OwningTeam(k, i) # TeamOf(Identity(h))))
           => /\ put.status = 404 /\ put.store = Store(k)
              /\ del.status = 404 /\ del.store = Store(k)

\* C4: every stored task, project and lead belongs to the team of the
\* identity that created it; no request changes the team of a record.
C4_TeamWriteOnce ==
  \A k \in Kinds : \A i \in 1..Len(Store(k)) : OwningTeam(k, i) = origin[k][i]

\* Two create bodies that differ at most in teamName and createdBy
SameButStamps(b1, b2) ==
  /\ DOMAIN b1 \ {"teamName", "createdBy"} = DOMAIN b2 \ {"teamName", "createdBy"}
  /\ \A f \in DOMAIN b1 \ {"teamName", "createdBy"} : b1[f] = b2[f]

C9_MiddlewareGate ==
  \A h \in Headers :
    LET bad == HasToken(h) /\ JwtVerify(HeaderToken(h), Secret, now).err IN
    /\ \A k \in Kinds : \A res \in
           {List(k, h)} \cup {Create(k, h, b) : b \in CreateBodies(k)} \cup
           (IF server = "team" /\ k # "tasks" THEN {}
            ELSE {Put(k, h, id, b) : id \in ReqIds(k), b \in UpdateBodies} \cup
                 {Delete(k, h, id) : id \in ReqIds(k)}) :
         /\ ~HasToken(h) =>
              /\ res.status = 401 /\ res.body = [error |-> ErrTokenRequired]
              /\ res.store = Store(k)
         /\ bad =>
              /\ res.status = 403 /\ res.body = [error |-> ErrInvalidToken]
              /\ res.store = Store(k)
         /\ res.status \notin {401, 403} => HasToken(h) /\ ~bad
    /\ ~HasToken(h) => Me(h) = Response(401, [error |-> ErrTokenRequired])
    /\ bad => Me(h) = Response(403, [error |-> ErrInvalidToken])
    /\ (HasToken(h) /\ ~bad) => Me(h) = Response(200, [user |-> HeaderToken(h).payload])

\* C9 witness: a PUT with a token that fails verification was answered 403
\* while a task it names is stored.
C9_Witness ==
  /\ req.op = OpPut("tasks")
  /\ HasToken(req.headers)
  /\ JwtVerify(HeaderToken(req.headers), Secret, now).err
  /\ \E i \in 1..Len(tasks) : tasks[i].id = req.id
  /\ resp = Response(403, [error |-> ErrInvalidToken])

\* The indices of the records of a store that belong to a team
TeamRecords(kind, team) == {i \in 1..Len(Store(kind)) : OwningTeam(kind, i) = team}

\* C12: a list request returns all and only the records of the requester's
\* team, and of any two records returned the one created later comes first.
C12_ListExactDescending ==
  \A k \in Kinds, h \in Headers :
    Verified(h) =>
      LET list == List(k, h).body
          mine == TeamRecords(k, TeamOf(Identity(h)))
      IN /\ Len(list) = Cardinality(mine)
         /\ \A i \in mine : Appears(k, i, list)
         /\ \A j \in 1..Len(list) : \E i \in mine : list[j] = Store(k)[i]
         /\ \A a \in 1..Len(list), b \in 1..Len(list) :
              a < b => list[a].createdAt[2] >= list[b].createdAt[2]

\* C15: for tasks, projects and leads alike, an update and a delete by id of
\* an existing record, requested by an identity of the record's team, succeed:
\* the update answers the record with the supplied fields merged in, the
\* delete removes one record.
C15_SameForThreeKinds ==
  \A k \in Kinds, h \in Headers :
    \A i \in 1..Len(Store(k)), b \in UpdateBodies :
      (/\ Verified(h)
       /\ OwningTeam(k, i) = TeamOf(Identity(h))
       /\ DOMAIN b \subseteq DOMAIN Store(k)[i])
      => /\ Put(k, h, Store(k)[i].id, b).status = 200
         /\ \A f \in DOMAIN b : Put(k, h, Store(k)[i].id, b).body[f] = b[f]
         /\ Delete(k, h, Store(k)[i].id).status \in {200, 204}
         /\ Len(Delete(k, h, Store(k)[i].id).store) = Len(Store(k)) - 1

\* C20: on the team server no two users have the same id and no two records
\* of one store have the same id.
C20_IdsUnique ==
  server = "team" =>
    /\ \A i \in 1..Len(users), j \in 1..Len(users) :
         i # j => users[i].id # users[j].id
    /\ \A k \in Kinds : \A i \in 1..Len(Store(k)), j \in 1..Len(Store(k)) :
         i # j => Store(k)[i].id # Store(k)[j].id

-----------------------------------------------------------------------------
(* Auth runs: registrations (suspended at their awaits), logins, /api/auth/me *)

OpRegister == "POST /api/auth/register"
OpLogin == "POST /api/auth/login"

\* The pending registration i with its position moved to `at`
At(i, at) == [pending EXCEPT ![i] = [@ EXCEPT !.at = at]]

\* teamName || 'デフォルトチーム'
FinalTeamName(body) == OrText(body, "teamName", DefaultTeam)

\* A step of the auth routes that touches no resource store
AuthFrame == UNCHANGED <<server, tasks, projects, leads, origin, browser, proc>>

\* POST /api/auth/register arrives and runs to its response or to the await
\* of bcrypt.hash
RegisterBegin(body) ==
  /\ req = Idle
  /\ LET out == RegisterChecks(body) IN
     IF out.status # 0
     THEN /\ req' = Request(OpRegister, <<>>, NoId, body)
          /\ resp' = out
          /\ UNCHANGED pending
     ELSE /\ Len(users) + Len(pending) < MaxUsers
          /\ pending' = Append(pending, [body |-> body, at |-> "hash"])
          /\ UNCHANGED <<req, resp>>
  /\ UNCHANGED <<now, users, teams, dbSeq, issued>>
  /\ AuthFrame

\* team server: bcrypt.hash resolves; the user is pushed, the token signed and
\* the 201 sent without another await
TeamRegisterFinish(i) ==
  /\ req = Idle
  /\ server = "team"
  /\ pending[i].at = "hash"
  /\ LET user == NewUser(pending[i].body, ToStr(now), now) IN
     /\ users' = Append(users, user)
     /\ resp' = Registered201(user, now)
     /\ issued' = issued \cup {[user |-> Claims(user), token |-> TokenOf(user, now)]}
  /\ req' = Request(OpRegister, <<>>, NoId, pending[i].body)
  /\ pending' = Splice(pending, i)
  /\ UNCHANGED <<now, teams, dbSeq>>
  /\ AuthFrame

\* prisma server: bcrypt.hash resolves and prisma.team.findUnique is answered
PrismaFindTeam(i) ==
  /\ req = Idle
  /\ server = "prisma"
  /\ pending[i].at = "hash"
  /\ pending' = At(i, IF FinalTeamName(pending[i].body) \in teams
                      THEN "user.create" ELSE "team.create")
  /\ UNCHANGED <<now, users, teams, dbSeq, issued, req, resp>>
  /\ AuthFrame

\* prisma server: prisma.team.create is answered; a name that is taken by now
\* is rejected and the catch block answers 500
PrismaCreateTeam(i) ==
  /\ req = Idle
  /\ server = "prisma"
  /\ pending[i].at = "team.create"
  /\ IF FinalTeamName(pending[i].body) \in teams
     THEN /\ req' = Request(OpRegister, <<>>, NoId, pending[i].body)
          /\ resp' = Response(500, [error |-> ErrRegister])
          /\ pending' = Splice(pending, i)
          /\ UNCHANGED teams
     ELSE /\ teams' = teams \cup {FinalTeamName(pending[i].body)}
          /\ pending' = At(i, "user.create")
          /\ UNCHANGED <<req, resp>>
  /\ UNCHANGED <<now, users, dbSeq, issued>>
  /\ AuthFrame

\* prisma server: prisma.user.create is answered; an email that is taken by
\* now is rejected and the catch block answers 500
PrismaCreateUser(i) ==
  /\ req = Idle
  /\ server = "prisma"
  /\ pending[i].at = "user.create"
  /\ req' = Request(OpRegister, <<>>, NoId, pending[i].body)
  /\ pending' = Splice(pending, i)
  /\ IF FindByEmail(pending[i].body.email) # 0
     THEN /\ resp' = Response(500, [error |-> ErrRegister])
          /\ UNCHANGED <<users, dbSeq, issued>>
     ELSE LET user == NewUser(pending[i].body, DbId(dbSeq + 1), now) IN
          /\ users' = Append(users, user)
          /\ dbSeq' = dbSeq + 1
          /\ resp' = Registered201(user, now)
          /\ issued' = issued \cup
                         {[user |-> Claims(user), token |-> TokenOf(user, now)]}
  /\ UNCHANGED <<now, teams>>
  /\ AuthFrame

\* POST /api/auth/login
LoginRequest(body) ==
  /\ req = Idle
  /\ LET out == Login(body) IN
     /\ out.status = 200 => Cardinality(issued) < MaxTokens
     /\ req' = Request(OpLogin, <<>>, NoId, body)
     /\ resp' = out
     /\ issued' = IF out.status = 200
                  THEN issued \cup {[user |-> out.body.user, token |-> out.body.token]}
                  ELSE issued
  /\ UNCHANGED <<now, users, teams, dbSeq, pending>>
  /\ AuthFrame

\* Clock readings of an auth run: around the start and around the first expiry
ClockReadings == (0..MaxSkew) \cup {ExpiresIn + d : d \in 0..MaxSkew}

RegisterBodies ==
  { [email |-> <<"a", "@", "x">>, password |-> "pw", teamName |-> Sales],
    [email |-> <<"A", "@", "x">>, password |-> "pw", teamName |-> Ops],
    [email |-> <<"b", "@", "x">>, password |-> "pw", name |-> <<"B", "o", "b">>],
    [email |-> <<"a", "@", "x">>],
    [password |-> "pw"] }

LoginBodies ==
  { [email |-> <<"a", "@", "x">>, password |-> "pw"],
    [email |-> <<"A", "@", "x">>, password |-> "bad"],
    [email |-> <<"b", "@", "x">>, password |-> "pw"],
    [email |-> <<"z", "@", "x">>, password |-> "pw"],
    [email |-> <<"a", "@", "x">>] }

\* What a client can make of a token without the secret: the payload signed
\* with a key of its own, and the payload rewritten under the old signature
Forgeries(tok) ==
  { [tok EXCEPT !.sig = Sign("attacker-key", tok.payload)],
    [tok EXCEPT !.payload = [@ EXCEPT !.exp = @ + ExpiresIn]],
    [tok EXCEPT !.payload = [@ EXCEPT !.teamName = IF @ = Ops THEN Sales ELSE Ops]] }

\* The tokens a client may present
Presented ==
  {g.token : g \in issued} \cup UNION {Forgeries(g.token) : g \in issued}

AuthHeaders == {<<>>} \cup {<<"Bearer", tok>> : tok \in Presented}

InitAuth ==
  /\ server \in {"team", "prisma"}
  /\ now = 0
  /\ users = <<>>
  /\ teams = {}
  /\ tasks = <<>>
  /\ projects = <<>>
  /\ leads = <<>>
  /\ dbSeq = 0
  /\ pending = <<>>
  /\ issued = {}
  /\ origin = [k \in Kinds |-> <<>>]
  /\ req = Idle
  /\ resp = NoResponse
  /\ BrowserOpened
  /\ proc = Started

NextAuth ==
  \/ Respond
  \/ req = Idle /\ \E t \in ClockReadings : Tick(t)
  \/ req = Idle /\ \E b \in RegisterBodies : RegisterBegin(b)
  \/ req = Idle /\ \E i \in 1..Len(pending) : TeamRegisterFinish(i)
  \/ req = Idle /\ \E i \in 1..Len(pending) : PrismaFindTeam(i)
  \/ req = Idle /\ \E i \in 1..Len(pending) : PrismaCreateTeam(i)
  \/ req = Idle /\ \E i \in 1..Len(pending) : PrismaCreateUser(i)
  \/ req = Idle /\ \E b \in LoginBodies : LoginRequest(b)
  \/ req = Idle /\ \E h \in AuthHeaders : GetMe(h)
  \/ req = Idle /\ \E h \in AuthHeaders : GetMembers(h)

SpecAuth == InitAuth /\ [][NextAuth]_vars

-----------------------------------------------------------------------------
(* Properties of registration, login and tokens (checked under SpecAuth) *)

\* Some stored user has the email, up to letter case
IsRegistered(email) ==
  \E i \in 1..Len(users) : ToLowerCase(users[i].email) = ToLowerCase(email)

\* C6: once a user with email e is stored, a register request that arrives
\* with an email equal to e up to letter case is answered 400 "already
\* registered" before anything is awaited, and the step that answers it adds
\* no user and hands out no token.
C6_DuplicateRejected ==
  /\ [](\A b \in RegisterBodies :
          (~Missing(b) /\ IsRegistered(b.email)) =>
             /\ RegisterChecks(b).status = 400
             /\ RegisterChecks(b).body = [error |-> ErrDuplicate])
  /\ [][(req'.op = OpRegister /\ resp'.status = 400) =>
          /\ users' = users /\ issued' = issued /\ pending' = pending
          /\ ~Has(resp'.body, "token")]_vars

\* C6 witness: a registration spelled with other letter case than the stored
\* email was answered 400 "already registered".
C6_Witness ==
  /\ req.op = OpRegister
  /\ resp.status = 400
  /\ resp.body = [error |-> ErrDuplicate]
  /\ \E i \in 1..Len(users) :
       users[i].email # req.body.email /\ users[i].email = ToLowerCase(req.body.email)

\* C7: no two stored users have the same normalized email, also when
\* registrations for one email overlap at the await of the hash.
C7_EmailUnique ==
  \A i \in 1..Len(users), j \in 1..Len(users) :
    i # j => ToLowerCase(users[i].email) # ToLowerCase(users[j].email)

\* C8: a login with a registered email and a wrong password and a login with
\* an unregistered email get the same response, 401 with the same error body
\* and no token, and a login answered 401 changes neither users nor tokens.
C8_LoginIndistinguishable ==
  /\ [](\A b1 \in LoginBodies, b2 \in LoginBodies :
          (/\ ~Missing(b1) /\ ~Missing(b2)
           /\ FindByEmail(b1.email) # 0
           /\ ~BcryptCompare(b1.password, users[FindByEmail(b1.email)].password)
           /\ ~IsRegistered(b2.email))
          => /\ Login(b1) = Login(b2)
             /\ Login(b1).status = 401
             /\ Login(b1).body = [error |-> ErrCredentials])
  /\ [][(req'.op = OpLogin /\ resp'.status = 401) =>
          /\ users' = users /\ issued' = issued /\ teams' = teams
          /\ ~Has(resp'.body, "token")]_vars

\* C8 witness: a login with a registered email and a wrong password was
\* answered 401 while some email a client may try is not registered.
C8_Witness ==
  /\ req.op = OpLogin
  /\ resp.status = 401
  /\ IsRegistered(req.body.email)
  /\ \E b \in LoginBodies : ~Missing(b) /\ ~IsRegistered(b.email)

\* The five claims register and login sign, read from a decoded payload
ClaimsIn(payload) ==
  [k \in {"id", "email", "name", "role", "teamName"} |-> payload[k]]

\* C10: authenticateToken accepts a token if and only if a register or login
\* response handed it out and fewer than 30 days have passed since; every
\* other token (forged signature, rewritten payload, passed expiry) gets 403
\* "invalid token"; and /api/auth/me with an accepted token answers with the
\* claims the token was handed out with.
C10_TokenRoundTrip ==
  \A tok \in Presented :
    LET h == <<"Bearer", tok>>
        a == AuthenticateToken(h, now)
    IN /\ a.next <=> (/\ \E g \in issued : g.token = tok
                      /\ now - tok.payload.iat < ExpiresIn)
       /\ ~a.next => a.status = 403 /\ a.body = [error |-> ErrInvalidToken]
       /\ a.next => /\ Me(h).status = 200
                    /\ \A g \in issued :
                         g.token = tok => ClaimsIn(Me(h).body.user) = g.user

\* C10 witness: /api/auth/me answered 200 for a token handed out by a login
\* while another token that was handed out has expired.
C10_Witness ==
  /\ req.op = OpMe
  /\ resp.status = 200
  /\ \E g \in issued :
       /\ req.headers = <<"Bearer", g.token>>
       /\ \E i \in 1..Len(users) :
            users[i].id = g.user.id /\ users[i].createdAt # ToISOString(g.token.payload.iat)
  /\ \E g \in issued : now >= g.token.payload.exp

\* Register and login bodies in which email or password is absent or empty
InvalidBodies ==
  { NoBody,
    [email |-> <<"a", "@", "x">>],
    [password |-> "pw"],
    [email |-> <<>>, password |-> "pw"],
    [email |-> <<"a", "@", "x">>, password |-> ""] }

\* C14: a register or login request whose email or password is missing or
\* empty is answered 400 "email and password required", and the step that
\* answers it adds no user, no team, no token and suspends nothing.
C14_ValidationNoEffect ==
  /\ [](\A b \in InvalidBodies :
          /\ RegisterChecks(b) = Response(400, [error |-> ErrRequired])
          /\ Login(b) = Response(400, [error |-> ErrRequired]))
  /\ [][(req = Idle /\ req'.op \in {OpRegister, OpLogin} /\ Missing(req'.body)) =>
          /\ resp' = Response(400, [error |-> ErrRequired])
          /\ users' = users /\ teams' = teams /\ issued' = issued
          /\ pending' = pending]_vars

\* C14 witness: a registration without a password was answered 400 while a
\* registration of the same email is suspended at the hash, and nobody is
\* registered.
C14_Witness ==
  /\ req.op = OpRegister
  /\ resp.status = 400
  /\ resp.body = [error |-> ErrRequired]
  /\ Has(req.body, "email") /\ ~Has(req.body, "password")
  /\ users = <<>> /\ issued = {}
  /\ \E i \in 1..Len(pending) : pending[i].body.email = req.body.email

\* The user objects a response carries: the `user` of a register, login or
\* /me response, the payload of its token (readable by whoever holds it) and
\* the elements of a members response
UserObjects ==
  IF resp.status \notin {200, 201} THEN {}
  ELSE IF req.op = OpMembers THEN {resp.body[i] : i \in 1..Len(resp.body)}
  ELSE {resp.body.user} \cup
       (IF Has(resp.body, "token") THEN {resp.body.token.payload} ELSE {})

\* The password hashes stored and the plaintext passwords the clients sent
Hashes == {users[i].password : i \in 1..Len(users)}
Plaintexts ==
  {b.password : b \in {x \in RegisterBodies \cup LoginBodies : Has(x, "password")}}

\* C21: no response of register, login, /api/auth/me or /api/team/members
\* carries a password field, a stored password hash or a plaintext password,
\* and every element of a members response is a stored user whose teamName is
\* the teamName of the verified requester.
C21_NoCredentialsInResponses ==
  req.op \in {OpRegister, OpLogin, OpMe, OpMembers} =>
    /\ \A o \in UserObjects :
         /\ ~Has(o, "password")
         /\ \A k \in DOMAIN o \cap {"email", "name", "teamName"} : o[k] \notin Hashes
         /\ \A k \in DOMAIN o \cap {"id", "role"} : o[k] \notin Plaintexts
    /\ (req.op = OpMembers /\ resp.status = 200) =>
         \A o \in UserObjects :
           /\ o.teamName = AuthenticateToken(req.headers, now).user.teamName
           /\ \E i \in 1..Len(users) :
                users[i].teamName = o.teamName /\ o = MemberView(users[i])

\* A members request was answered with a member while a user of another team
\* is registered
C21_Witness ==
  /\ req.op = OpMembers
  /\ resp.status = 200
  /\ Len(resp.body) >= 1
  /\ \E i \in 1..Len(users) : users[i].teamName # resp.body[1].teamName

-----------------------------------------------------------------------------
(* Field runs: the resource routes with bodies that carry falsy values,       *)
(* server-assigned fields and fields no record has, and with a token signed   *)
(* under the secret whose payload has no teamName (AuthenticatedRequest       *)
(* declares user.teamName optional, and the handlers read it with ?.)         *)

\* A token for the first user, signed under the secret, without teamName
Teamless ==
  JwtSign([k \in {"id", "email", "name", "role"} |-> Claims(users[1])[k]], Secret, 1)

FieldHeaders ==
  {<<"Bearer", tok>> : tok \in {g.token : g \in issued} \cup {Teamless}}

FieldCreateBodies(kind) ==
  CASE kind = "tasks" -> {[title |-> <<"t">>, status |-> "open"]}
    [] kind = "projects" -> {[name |-> <<"p">>, progress |-> 0]}
    [] kind = "leads" ->
         {[company |-> <<"c">>, contact |-> <<"k">>, value |-> 0, probability |-> 0],
          [company |-> <<"c">>, contact |-> <<"k">>, probability |-> 30]}

FieldUpdateBodies ==
  IF server = "team"
  THEN {[status |-> "done", updatedAt |-> ToISOString(0)],
        [assignee |-> <<"E", "v", "e">>, note |-> "n"]}
  ELSE {[status |-> "done"], [assignee |-> <<"E", "v", "e">>, note |-> "n"]}

NextFields ==
  \/ Respond
  \/ req = Idle /\ \E t \in (now + 1) .. (Len(users) + MaxTick) : Tick(t)
  \/ req = Idle /\ \E k \in Kinds, h \in FieldHeaders : ListRecords(k, h)
  \/ req = Idle /\ \E k \in Kinds, h \in FieldHeaders :
                     \E b \in FieldCreateBodies(k) : CreateRecord(k, h, b)
  \/ req = Idle /\ \E k \in Kinds, h \in FieldHeaders :
                     \E id \in ReqIds(k), b \in FieldUpdateBodies : PutRecord(k, h, id, b)
  \/ req = Idle /\ \E k \in Kinds, h \in FieldHeaders : \E id \in ReqIds(k) :
                     DeleteRecord(k, h, id)

SpecFields == InitRes /\ [][NextFields]_vars

\* The fields of a record that the server assigns
ServerAssigned == {"id", "createdAt", "updatedAt", "teamName", "createdBy"}

\* C11: right after a create answered 201, every list request of an identity
\* of the creator's team holds a record whose fields equal the fields
\* supplied (id, timestamps, teamName and createdBy apart); and a step that
\* is no update and no delete leaves every stored record as it is.
C11_CreateListRoundTrip ==
  [][/\ \A k \in Kinds :
          (/\ req = Idle /\ req'.op = OpCreate(k) /\ resp'.status = 201
           /\ Has(HeaderToken(req'.headers).payload, "teamName"))
          => \A h \in FieldHeaders :
               TeamOf(HeaderToken(h).payload) = TeamOf(HeaderToken(req'.headers).payload)
               => \E j \in 1..Len(List(k, h).body') :
                    \A f \in DOMAIN req'.body \ ServerAssigned :
                      List(k, h).body'[j][f] = req'.body[f]
     /\ (req = Idle /\ req'.op \notin {OpPut(k) : k \in Kinds} \cup {OpDelete(k) : k \in Kinds})
          => \A k \in Kinds : \A i \in 1..Len(Store(k)) :
               i <= Len(Store(k)') /\ Store(k)'[i] = Store(k)[i]
    ]_vars

\* C13: for a verified identity without teamName, every list request returns
\* the empty list, and every create request is rejected and stores nothing.
C13_NoTeamRejected ==
  \A k \in Kinds, h \in FieldHeaders :
    (Verified(h) /\ ~Has(Identity(h), "teamName")) =>
      /\ List(k, h).status = 200 /\ List(k, h).body = <<>>
      /\ \A b \in FieldCreateBodies(k) :
           /\ Create(k, h, b).status \in 400..499
           /\ Create(k, h, b).store = Store(k)

\* C19: a PUT /api/tasks/:id answered 200 changes one task of the requester's
\* team with that id: the fields of the body are replaced, the others kept,
\* updatedAt is the time of the request whatever the body says; every other
\* task, the other stores, the users and the tokens stay as they are.
C19_UpdateFrame ==
  /\ [](server = "team" =>
          \A h \in FieldHeaders, id \in ReqIds("tasks"), b \in FieldUpdateBodies :
            LET res == TeamPutTask(h, id, b) IN
            res.status = 200 =>
              \E i \in 1..Len(tasks) :
                /\ tasks[i].id = id /\ tasks[i].teamName = TeamOf(Identity(h))
                /\ res.store = [tasks EXCEPT ![i] = res.body]
                /\ DOMAIN res.body = DOMAIN tasks[i] \cup DOMAIN b
                /\ \A f \in DOMAIN res.body :
                     res.body[f] = IF f = "updatedAt" THEN ToISOString(now)
                                   ELSE IF f \in DOMAIN b THEN b[f]
                                   ELSE tasks[i][f])
  /\ [][(server = "team" /\ req = Idle /\ req'.op = OpPut("tasks")) =>
          /\ users' = users /\ issued' = issued
          /\ projects' = projects /\ leads' = leads
          /\ resp'.status # 200 => tasks' = tasks]_vars

\* C19 witness: an update whose body carries an updatedAt of its own was
\* answered 200 with the time of the request as updatedAt, while another task
\* is stored.
C19_Witness ==
  /\ server = "team"
  /\ req.op = OpPut("tasks")
  /\ resp.status = 200
  /\ Has(req.body, "updatedAt")
  /\ resp.body.updatedAt = ToISOString(now)
  /\ resp.body.updatedAt # req.body.updatedAt
  /\ resp.body.status = req.body.status
  /\ Len(tasks) = 2
  /\ \E i \in 1..2 : tasks[i] = resp.body /\ tasks[3 - i].status # req.body.status

-----------------------------------------------------------------------------
(* Concurrent runs: update and delete requests are sent, travel, and are      *)
(* handled in any order.  A handler of the team server runs from the token    *)
(* check to res.json without an await; a handler of the Prisma server awaits  *)
(* one prisma.<kind>.update / delete call, which the database executes as one *)
(* statement.  Either way a request takes effect in one step.  `pending`      *)
(* keeps the requests sent, and for those handled the status and the order.   *)

\* A client sends PUT or DELETE /api/<kind>/:id
Send(method, kind, h, id, body) ==
  /\ Len(pending) < MaxInFlight
  /\ pending' = Append(pending, [method |-> method, kind |-> kind, headers |-> h,
                                 id |-> id, body |-> body, status |-> 0, seq |-> 0])
  /\ UNCHANGED <<server, now, users, teams, tasks, projects, leads, dbSeq,
                 issued, origin, req, resp, browser, proc>>

\* The number of requests of `pending` that were handled
Handled == Cardinality({i \in 1..Len(pending) : pending[i].seq # 0})

\* The server handles a request that was sent
Handle(i) ==
  /\ req = Idle
  /\ pending[i].seq = 0
  /\ LET e == pending[i]
         res == IF e.method = "PUT" THEN Put(e.kind, e.headers, e.id, e.body)
                ELSE Delete(e.kind, e.headers, e.id)
     IN /\ req' = Request(IF e.method = "PUT" THEN OpPut(e.kind) ELSE OpDelete(e.kind),
                          e.headers, e.id, e.body)
        /\ resp' = Response(res.status, res.body)
        /\ tasks' = IF e.kind = "tasks" THEN res.store ELSE tasks
        /\ projects' = IF e.kind = "projects" THEN res.store ELSE projects
        /\ leads' = IF e.kind = "leads" THEN res.store ELSE leads
        /\ origin' = [origin EXCEPT ![e.kind] = res.origin]
        /\ pending' = [pending EXCEPT ![i] =
                         [e EXCEPT !.status = res.status, !.seq = Handled + 1]]
  /\ UNCHANGED <<server, now, users, teams, dbSeq, issued, browser, proc>>

\* The tokens handed out, as Authorization headers
IssuedHeaders == {<<"Bearer", g.token>> : g \in issued}

ConcCreateBodies(kind) ==
  CASE kind = "tasks" -> {[title |-> <<"t">>]}
    [] kind = "projects" -> {[name |-> <<"p">>]}
    [] kind = "leads" -> {[company |-> <<"c">>, contact |-> <<"k">>]}

NextConc ==
  \/ Respond
  \/ req = Idle /\ \E t \in (now + 1) .. (Len(users) + MaxTick) : Tick(t)
  \/ req = Idle /\ \E k \in Kinds, h \in IssuedHeaders :
                     \E b \in ConcCreateBodies(k) : CreateRecord(k, h, b)
  \/ req = Idle /\ \E k \in Kinds, h \in IssuedHeaders : \E id \in ReqIds(k) :
                     \/ Send("PUT", k, h, id, [status |-> "done"])
                     \/ Send("DELETE", k, h, id, NoBody)
  \/ req = Idle /\ \E i \in 1..Len(pending) : Handle(i)

SpecConc == InitRes /\ [][NextConc]_vars

\* C16: update and delete requests on one id take effect one at a time, so
\* the store after them is the store after some serial order of them; once a
\* delete of an id has succeeded, an update of that id that is handled after
\* it finds no record: it brings none back and writes onto no other record.
C16_AtomicPerId ==
  \A d \in 1..Len(pending), p \in 1..Len(pending) :
    (/\ pending[d].method = "DELETE" /\ pending[d].status \in {200, 204}
     /\ pending[p].method = "PUT" /\ pending[p].seq > pending[d].seq
     /\ pending[p].kind = pending[d].kind /\ pending[p].id = pending[d].id)
    => pending[p].status # 200


-----------------------------------------------------------------------------
(* The client: the axios instance `api` and the App component                 *)
(*                                                                            *)
(* One browser talks to the server.  Every request of the API client passes   *)
(* the request interceptor on its way out and the response interceptor on     *)
(* its way back.  The AuthContext (AuthProvider, useAuth) supplies the App    *)
(* with {user, isLoading}; it keeps the session under the localStorage keys   *)
(* 'token' and 'user' that the interceptors read and remove.                  *)

\* api.interceptors.request: the Authorization header is set when
\* localStorage holds a token
RequestInterceptor(store) ==
  IF Has(store, "token") THEN <<"Bearer", store.token>> ELSE <<>>

\* api.interceptors.response, error branch: what a response with this status
\* leaves of localStorage
ResponseInterceptor(store, status) ==
  IF status = 401 THEN RemoveItem(RemoveItem(store, "token"), "user") ELSE store

\* taskAPI.getTasks, projectAPI.getProjects, leadAPI.getLeads
ClientList(kind) == ListRecords(kind, RequestInterceptor(localStorage))

\* taskAPI.createTask, projectAPI.createProject, leadAPI.createLead
ClientCreate(kind, body) == CreateRecord(kind, RequestInterceptor(localStorage), body)

\* The response reaches the client and passes the response interceptor.  On
\* 401 the session is removed and window.location.href is set to '/', which
\* loads the page anew
ClientReceive ==
  /\ req # Idle
  /\ req' = Idle
  /\ resp' = NoResponse
  /\ localStorage' = ResponseInterceptor(localStorage, resp.status)
  /\ IF resp.status = 401
     THEN location' = Home /\ auth' = Loading /\ form' = FormInit
     ELSE UNCHANGED <<location, auth, form>>
  /\ UNCHANGED <<server, now, users, teams, tasks, projects, leads, dbSeq,
                 pending, issued, origin, proc>>

\* AuthProvider on mount: the stored session, if any, becomes the user
AuthSettle ==
  /\ auth.isLoading
  /\ auth' = [user |-> IF Has(localStorage, "user") THEN <<localStorage.user>>
                       ELSE NoUser,
              isLoading |-> FALSE]
  /\ UNCHANGED <<server, now, users, teams, tasks, projects, leads, dbSeq,
                 pending, issued, origin, req, resp, localStorage, location,
                 form, proc>>

\* useAuth().login / register resolves to true: the {user, token} of a
\* register or login response becomes the session.  The App stops rendering
\* <Auth />, whose state is gone with it
AuthLogin(g) ==
  /\ ~auth.isLoading
  /\ auth.user = NoUser
  /\ form.call # "none"
  /\ localStorage' = SetItem(SetItem(localStorage, "token", g.token), "user", g.user)
  /\ auth' = [user |-> <<g.user>>, isLoading |-> FALSE]
  /\ form' = FormInit
  /\ UNCHANGED <<server, now, users, teams, tasks, projects, leads, dbSeq,
                 pending, issued, origin, req, resp, location, proc>>

\* useAuth().logout, the onClick of the logout button
AuthLogout ==
  /\ ~auth.isLoading
  /\ auth.user # NoUser
  /\ localStorage' = RemoveItem(RemoveItem(localStorage, "token"), "user")
  /\ auth' = [user |-> NoUser, isLoading |-> FALSE]
  /\ UNCHANGED <<server, now, users, teams, tasks, projects, leads, dbSeq,
                 pending, issued, origin, req, resp, location, form, proc>>

\* The messages of the Auth component
ErrLoginFailed == "login-failed"
ErrRegisterFailed == "register-failed"
ErrOccurred == "error-occurred"

\* handleSubmit up to its await: isLoading is set, the error cleared and
\* login or register called, as isLogin says
HandleSubmitCall(f) ==
  [f EXCEPT !.isLoading = TRUE, !.error = "",
            !.call = IF f.isLogin THEN "login" ELSE "register"]

\* Faulty variant: setIsLoading(false) follows the await inside the try block,
\* so a throw skips it
HandleSubmitSettleNoFinally(f, outcome) ==
  IF outcome = "throw"
  THEN [f EXCEPT !.error = ErrOccurred, !.call = "none"]
  ELSE [f EXCEPT !.isLoading = FALSE, !.call = "none",
                 !.error = IF f.call = "login" THEN ErrLoginFailed
                           ELSE ErrRegisterFailed]

\* handleSubmit after its await when the call returned false or threw; the
\* message is chosen by the isLogin the handler was created with
HandleSubmitSettle(f, outcome) ==
  [f EXCEPT !.isLoading = FALSE, !.call = "none",
            !.error = IF outcome = "throw" THEN ErrOccurred
                      ELSE IF f.call = "login" THEN ErrLoginFailed
                      ELSE ErrRegisterFailed]

\* <Auth /> is on the screen
AuthMounted == ~auth.isLoading /\ auth.user = NoUser

FormFrame ==
  UNCHANGED <<server, now, users, teams, tasks, projects, leads, dbSeq,
              pending, issued, origin, req, resp, localStorage, location, auth, proc>>

\* The form is submitted; the submit button is disabled while isLoading
Submit ==
  /\ AuthMounted
  /\ ~form.isLoading
  /\ form' = HandleSubmitCall(form)
  /\ FormFrame

\* The call returns false or throws
SubmitFails(outcome) ==
  /\ AuthMounted
  /\ form.call # "none"
  /\ form' = HandleSubmitSettle(form, outcome)
  /\ FormFrame

\* The onClick of the switch button
Switch ==
  /\ AuthMounted
  /\ form' = [form EXCEPT !.isLogin = ~form.isLogin, !.error = ""]
  /\ FormFrame

\* <Routes>: the page component of each path
Routes ==
  [p \in {"/", "/sales", "/projects", "/tasks", "/documents", "/sales-emails",
          "/service-materials"} |->
     CASE p = "/" -> "Dashboard"
       [] p = "/sales" -> "Sales"
       [] p = "/projects" -> "Projects"
       [] p = "/tasks" -> "Tasks"
       [] p = "/documents" -> "Documents"
       [] p = "/sales-emails" -> "SalesEmails"
       [] p = "/service-materials" -> "ServiceMaterials"]

\* A click on a <Link> of the nav-menu
Navigate(p) ==
  /\ ~auth.isLoading
  /\ auth.user # NoUser
  /\ p # location
  /\ location' = p
  /\ UNCHANGED <<server, now, users, teams, tasks, projects, leads, dbSeq,
                 pending, issued, origin, req, resp, localStorage, auth, form, proc>>

\* What a component renders is the sequence of its elements in document
\* order; a page component is one element that carries the component's name
El(el, cls, text) == [el |-> el, cls |-> cls, text |-> text]

\* <Auth />: the elements the login/register screen is recognised by
AuthScreen ==
  << El("div", "auth-container", ""), El("div", "auth-card", ""),
     El("h1", "", "TeamHub"), El("form", "auth-form", "") >>

LoadingScreen ==
  << El("div", "loading-container", ""), El("div", "loading-spinner", "") >>

\* The return of AppContent for a user: sidebar and routed page
Shell(user, path) ==
  << El("div", "app", ""), El("nav", "sidebar", ""),
     El("h1", "logo", "TeamHub"), El("span", "user-details", user.name) >>
  \o (IF user.teamName # <<>> /\ user.teamName # ""
      THEN << El("span", "team-info", user.teamName) >> ELSE <<>>)
  \o << El("ul", "nav-menu", ""), El("button", "logout-button", ""),
        El("div", "main-content", "") >>
  \o (IF path \in DOMAIN Routes THEN << El("page", "", Routes[path]) >> ELSE <<>>)

\* Faulty variant: <Auth /> is not returned early but rendered above the shell
AppContentAuthAbove(a, path) ==
  IF a.isLoading THEN LoadingScreen
  ELSE IF a.user = NoUser THEN AuthScreen
  ELSE AuthScreen \o Shell(a.user[1], path)

\* AppContent, for the value `a` of useAuth() and the path of the location
AppContent(a, path) ==
  IF a.isLoading THEN LoadingScreen
  ELSE IF a.user = NoUser THEN AuthScreen
  ELSE Shell(a.user[1], path)

\* <App />
App == AppContent(auth, location)

\* Clock readings after which the tokens of the registrations have expired
ClientClock == {ExpiresIn + d : d \in 1..MaxUsers}

NextClient ==
  \/ \E kind \in Kinds : ClientList(kind)
  \/ \E kind \in Kinds : \E body \in CreateBodies(kind) : ClientCreate(kind, body)
  \/ ClientReceive
  \/ AuthSettle
  \/ Submit
  \/ \E outcome \in {"false", "throw"} : SubmitFails(outcome)
  \/ Switch
  \/ \E g \in issued : AuthLogin(g)
  \/ AuthLogout
  \/ \E p \in DOMAIN Routes : Navigate(p)
  \/ \E t \in ClientClock : Tick(t)

SpecClient == InitRes /\ [][NextClient]_vars

\* The middleware turned the request away that is being answered
Rejected == req # Idle /\ ~AuthenticateToken(req.headers, now).next

\* C17: whenever a request sent through the API client is rejected by the
\* middleware (token missing or invalid), the client on receiving the response
\* removes 'token' and 'user' from localStorage and goes to the login screen
\* at '/', so that its next request carries no token.
C17_ResetOnAuthError ==
  [][(Rejected /\ req' = Idle) =>
       /\ ~Has(localStorage', "token")
       /\ ~Has(localStorage', "user")
       /\ location' = Home
       /\ RequestInterceptor(localStorage') = <<>>]_vars

\* The elements of a rendering r
Headings(r) == {i \in 1..Len(r) : r[i].el = "h1" /\ r[i].text = "TeamHub"}
ShowsAuth(r) == \E i \in 1..Len(r) : r[i].cls \in {"auth-container", "auth-form"}
ShowsNav(r) == \E i \in 1..Len(r) : r[i].cls \in {"sidebar", "nav-menu"}
Pages(r) == {r[i].text : i \in {j \in 1..Len(r) : r[j].el = "page"}}

\* C18: whenever the auth context is not loading, App renders exactly one
\* 'TeamHub' heading: with user null the Auth screen and neither navigation
\* nor page, with a user the sidebar and the page routed to by the location
\* and no Auth screen.
C18_ScreenGating ==
  ~auth.isLoading =>
    /\ Cardinality(Headings(App)) = 1
    /\ auth.user = NoUser =>
         ShowsAuth(App) /\ ~ShowsNav(App) /\ Pages(App) = {}
    /\ auth.user # NoUser =>
         /\ ShowsNav(App) /\ ~ShowsAuth(App)
         /\ Pages(App) = {Routes[p] : p \in {location} \cap DOMAIN Routes}

\* A user is logged in and has navigated to the tasks page
C18_Witness ==
  /\ ~auth.isLoading
  /\ auth.user # NoUser
  /\ location = "/tasks"
  /\ Pages(App) = {"Tasks"}


\* C22: handleSubmit sets isLoading and clears the error before it calls
\* login or register; when the call settles isLoading is false again and the
\* error is non-empty exactly when the call returned false or threw (the user
\* is still null); isLoading is true exactly while a call is awaited, and no
\* submission starts while one is in flight.
C22_SubmitCompletes ==
  /\ [](form.isLoading <=> form.call # "none")
  /\ [][/\ (form.call = "none" /\ form'.call # "none") =>
             form'.isLoading /\ form'.error = ""
        /\ (form.call # "none" /\ form'.call = "none" /\ ~auth'.isLoading) =>
             /\ ~form'.isLoading
             /\ form'.error # "" <=> auth'.user = NoUser
        /\ form.call # "none" => ~Submit]_vars

\* A register submission has failed and its message is shown
C22_Witness ==
  /\ AuthMounted
  /\ ~form.isLoading
  /\ form.call = "none"
  /\ form.error = ErrRegisterFailed


-----------------------------------------------------------------------------
(* Graceful shutdown of the Prisma server                                     *)
(*                                                                            *)
(* process.on('SIGTERM') and process.on('SIGINT') call server.close(cb).      *)
(* server.close stops the HTTP server from accepting connections and runs cb  *)
(* on 'close', which is emitted once the open connections have ended; called  *)
(* on a server that is closing or closed it registers cb for the 'close' that *)
(* follows.  cb awaits prisma.$disconnect() and then calls process.exit(0).   *)
(* A request holds a connection from its arrival to its response.             *)

\* The handler of SIGTERM / SIGINT: server.close(cb)
OnSignal(p) ==
  [p EXCEPT !.http = IF @ = "listening" THEN "closing" ELSE @,
            !.closeCbs = @ + 1,
            !.signals = @ + 1]

\* Faulty variant: process.exit(0) follows prisma.$disconnect() without await
OnCloseNoAwait(p) ==
  [p EXCEPT !.http = "closed",
            !.db = IF @ = "connected" THEN "disconnecting" ELSE @,
            !.closeCbs = 0,
            !.exit = "0"]

\* 'close' is emitted: every registered callback runs up to its await of
\* prisma.$disconnect()
OnClose(p) ==
  [p EXCEPT !.http = "closed",
            !.db = IF @ = "connected" THEN "disconnecting" ELSE @,
            !.awaiting = @ + p.closeCbs,
            !.closeCbs = 0]

\* A callback resumes after its await: process.exit(0)
AfterDisconnect(p) == [p EXCEPT !.exit = "0"]

ServerFrame ==
  UNCHANGED <<server, now, users, teams, tasks, projects, leads, dbSeq,
              pending, issued, origin, req, resp, browser>>

\* The process receives SIGTERM or SIGINT
Signal(sig) ==
  /\ proc.exit = "running"
  /\ proc.signals < MaxSignals
  /\ proc' = OnSignal(proc)
  /\ ServerFrame

\* The last connection has ended on a server that was told to close
EmitClose ==
  /\ proc.exit = "running"
  /\ proc.http # "listening"
  /\ proc.closeCbs > 0
  /\ req = Idle
  /\ proc' = OnClose(proc)
  /\ ServerFrame

\* The Prisma client has closed its connection
Disconnected ==
  /\ proc.exit = "running"
  /\ proc.db = "disconnecting"
  /\ proc' = [proc EXCEPT !.db = "disconnected"]
  /\ ServerFrame

\* prisma.$disconnect() resolves for an awaiting callback
Exit ==
  /\ proc.exit = "running"
  /\ proc.awaiting > 0
  /\ proc.db = "disconnected"
  /\ proc' = AfterDisconnect(proc)
  /\ ServerFrame

\* A connection is accepted only by a listening server
Accepting == proc.exit = "running" /\ proc.http = "listening"

InitShutdown == InitRes /\ server = "prisma"

NextShutdown ==
  \/ Accepting /\ \E h \in IssuedHeaders : ListRecords("tasks", h)
  \/ Accepting /\ \E h \in IssuedHeaders : \E b \in ConcCreateBodies("tasks") :
       CreateRecord("tasks", h, b)
  \/ proc.exit = "running" /\ Respond
  \/ \E sig \in {"SIGTERM", "SIGINT"} : Signal(sig)
  \/ EmitClose
  \/ Disconnected
  \/ Exit

SpecShutdown == InitShutdown /\ [][NextShutdown]_vars

\* C23: after SIGTERM or SIGINT the HTTP server is closed first, the Prisma
\* client starts to disconnect only once the HTTP server has closed (no
\* request is then being answered), and the process exits, with code 0, only
\* once the disconnection has completed; it never exits while the database
\* connection is open.
C23_ShutdownOrder ==
  /\ proc.http # "listening" => proc.signals > 0
  /\ proc.db # "connected" => proc.http = "closed" /\ req = Idle
  /\ proc.exit # "running" =>
       proc.exit = "0" /\ proc.http = "closed" /\ proc.db = "disconnected"

\* The process has exited after two signals, having stored a task before
C23_Witness ==
  /\ proc.exit = "0"
  /\ proc.signals = 2
  /\ Len(tasks) > 0

====
